---------------------------- MODULE Spec2Model ----------------------------
(***************************************************************************)
(* Model of src/server.js (the last revision in the file, lines 182-416):  *)
(* the /withdraw route behind its rate and concurrency limiters, the        *)
(* fuzzy beneficiary-name matcher, and the /squad-webhook route that        *)
(* verifies a signature and updates the Firestore ledger.                   *)
(*                                                                          *)
(* Each asynchronous handler is cut at its awaits: one action runs the      *)
(* code from one await to the next, as the Node event loop does.            *)
(***************************************************************************)
EXTENDS Integers, Sequences, FiniteSets, TLC

(***************************************************************************)
(* JavaScript values.  A value is a tagged record; strings are sequences    *)
(* of one-character strings so that the matcher can look at characters.     *)
(***************************************************************************)
Undefined == [t |-> "undefined"]
NaN == [t |-> "nan"]
Str(s) == [t |-> "string", s |-> s]
Num(n) == [t |-> "number", n |-> n]
\* a string whose characters the model never looks at (a status, a message)
Text(x) == [t |-> "text", x |-> x]

\* !v is false exactly for a truthy v: undefined, "", 0 and NaN are falsy.
Truthy(v) ==
    CASE v.t = "undefined" -> FALSE
      [] v.t = "nan" -> FALSE
      [] v.t = "string" -> Len(v.s) > 0
      [] v.t = "text" -> v.x # ""
      [] v.t = "number" -> v.n # 0

\* v || d
OrElse(v, d) == IF Truthy(v) THEN v ELSE d

(***************************************************************************)
(* Characters, in ascending order of their UTF-16 code unit.                *)
(***************************************************************************)
AsciiOrder ==
    << "\t", " ", "!", "'", "-", ".",
       "0", "1", "2", "3", "4", "5", "6", "7", "8", "9",
       "A", "B", "C", "D", "E", "F", "G", "H", "I", "J", "K", "L", "M",
       "N", "O", "P", "Q", "R", "S", "T", "U", "V", "W", "X", "Y", "Z",
       "a", "b", "c", "d", "e", "f", "g", "h", "i", "j", "k", "l", "m",
       "n", "o", "p", "q", "r", "s", "t", "u", "v", "w", "x", "y", "z" >>

Chars == { AsciiOrder[i] : i \in 1..Len(AsciiOrder) }

CodeTable == [c \in Chars |-> CHOOSE i \in 1..Len(AsciiOrder) : AsciiOrder[i] = c]

Code(c) == CodeTable[c]

UpperFirst == Code("A")
UpperLast == Code("Z")
LowerFirst == Code("a")

IsLowerAlnum(c) ==
    \/ Code(c) >= LowerFirst
    \/ (Code(c) >= Code("0") /\ Code(c) <= Code("9"))

\* String.prototype.toLowerCase, one character
LowerChar(c) ==
    IF Code(c) >= UpperFirst /\ Code(c) <= UpperLast
    THEN AsciiOrder[Code(c) - UpperFirst + LowerFirst]
    ELSE c

toLowerCase(s) == [i \in 1..Len(s) |-> LowerChar(s[i])]

\* .replace(/[^a-z0-9 ]/g, '')
StripNonAlnum(s) == SelectSeq(s, LAMBDA c : IsLowerAlnum(c) \/ c = " ")

IsSpace(c) == c \in {" ", "\t"}

\* .replace(/\s+/g, ' ')
RECURSIVE CollapseSpaces(_)
CollapseSpaces(s) ==
    IF s = << >> THEN << >>
    ELSE IF IsSpace(Head(s))
         THEN IF Len(s) > 1 /\ IsSpace(s[2])
              THEN CollapseSpaces(Tail(s))
              ELSE << " " >> \o CollapseSpaces(Tail(s))
         ELSE << Head(s) >> \o CollapseSpaces(Tail(s))

RECURSIVE TrimLeft(_)
TrimLeft(s) ==
    IF s # << >> /\ IsSpace(Head(s)) THEN TrimLeft(Tail(s)) ELSE s

RECURSIVE TrimRight(_)
TrimRight(s) ==
    IF s # << >> /\ IsSpace(s[Len(s)])
    THEN TrimRight(SubSeq(s, 1, Len(s) - 1))
    ELSE s

\* .trim()
Trim(s) == TrimRight(TrimLeft(s))

\* the chain with the trim made first
normalizeTrimFirst(s) == CollapseSpaces(StripNonAlnum(Trim(toLowerCase(s))))

\* str.toLowerCase().replace(/[^a-z0-9 ]/g, '').replace(/\s+/g, ' ').trim()
normalize(s) == Trim(CollapseSpaces(StripNonAlnum(toLowerCase(s))))

\* str.split(' '): the pieces between single spaces; '' gives ['']
RECURSIVE SplitFrom(_, _)
SplitFrom(s, cur) ==
    IF s = << >> THEN << cur >>
    ELSE IF Head(s) = " "
         THEN << cur >> \o SplitFrom(Tail(s), << >>)
         ELSE SplitFrom(Tail(s), Append(cur, Head(s)))

split(s) == SplitFrom(s, << >>)

\* the default comparison of Array.prototype.sort: by code units
RECURSIVE StrLess(_, _)
StrLess(a, b) ==
    IF b = << >> THEN FALSE
    ELSE IF a = << >> THEN TRUE
    ELSE IF Code(Head(a)) # Code(Head(b)) THEN Code(Head(a)) < Code(Head(b))
    ELSE StrLess(Tail(a), Tail(b))

RECURSIVE InsertSorted(_, _)
InsertSorted(w, ws) ==
    IF ws = << >> THEN << w >>
    ELSE IF StrLess(Head(ws), w) \/ Head(ws) = w
         THEN << Head(ws) >> \o InsertSorted(w, Tail(ws))
         ELSE << w >> \o ws

RECURSIVE sort(_)
sort(ws) == IF ws = << >> THEN << >> ELSE InsertSorted(Head(ws), sort(Tail(ws)))

\* longer.includes(word)
includes(ws, w) == \E i \in 1..Len(ws) : ws[i] = w

\* shorter.forEach(word => { if (longer.includes(word)) matches++; })
RECURSIVE CountMatches(_, _)
CountMatches(shorter, longer) ==
    IF shorter = << >> THEN 0
    ELSE (IF includes(longer, Head(shorter)) THEN 1 ELSE 0)
         + CountMatches(Tail(shorter), longer)

\* the threshold at one half
RatioAtLeastHalf(matches, len) == matches * 100 >= 50 * len

\* matches / shorter.length >= 0.66 ; split never returns an empty array,
\* so the division is by at least 1 and the comparison is one of rationals.
RatioAtLeast(matches, len) == matches * 100 >= 66 * len

fuzzyNameMatch(name1, name2) ==
    LET words1 == sort(split(normalize(name1)))
        words2 == sort(split(normalize(name2)))
        shorter == IF Len(words1) < Len(words2) THEN words1 ELSE words2
        longer == IF Len(words1) >= Len(words2) THEN words1 ELSE words2
    IN  RatioAtLeast(CountMatches(shorter, longer), Len(shorter))


(***************************************************************************)
(* Bounds of the model.                                                     *)
(***************************************************************************)
\* connections that can be open at the same time when the concurrency gate
\* is exercised (a slot is reused once its request is over)
NumSlots == 3
\* connections that can be open at the same time when the handler is
\* exercised with every input
NumClients == 2
\* values Date.now() can take: 0..MaxNow
MaxNow == 1
\* webhook deliveries in one run
NumHooks == 2

\* longest name given to the matcher when every short name is tried
MaxNameLen == 3

Slots == 1..NumSlots
Clients == 1..NumClients
AllSlots == Slots \cup Clients
Hooks == 1..NumHooks

(***************************************************************************)
(* Program constants.                                                       *)
(***************************************************************************)
MAX_CONCURRENT_WITHDRAWS == 2

(***************************************************************************)
(* Inputs: request bodies and what the gateway can answer.                  *)
(***************************************************************************)
NameAdeAbukaJoy == << "A", "d", "e", " ", "A", "b", "u", "k", "a", " ", "J", "o", "y" >>
NameAdeJoy == << "a", "d", "e", " ", " ", "j", "o", "y", "." >>
NameJohnSmith == << "J", "o", "h", "n", " ", "S", "m", "i", "t", "h" >>
NamePunct == << "!", "-" >>
EmptyString == << >>

AccountNumber == Str(<< "0", "1", "2", "3" >>)
BankCode == Str(<< "0", "5", "8" >>)

\* A number amount is held in thousandths of a naira: 150.5 is 150500.
AmountOk == Num(150500)
AmountZero == Num(0)
AmountNegative == Num(0 - 5000)
AmountText == Text("abc")

Body(a, n, b, name) ==
    [amount |-> a, accountNumber |-> n, bankCode |-> b, beneficiaryName |-> name]

Bodies ==
    { Body(AmountOk, AccountNumber, BankCode, Str(nm)) :
        nm \in {NameAdeJoy, NameJohnSmith, NamePunct} }
    \cup
    { Body(Undefined, AccountNumber, BankCode, Str(NameAdeJoy)),
      Body(AmountOk, Undefined, BankCode, Str(NameAdeJoy)),
      Body(AmountOk, AccountNumber, Undefined, Str(NameAdeJoy)),
      Body(AmountOk, AccountNumber, BankCode, Undefined),
      Body(AmountOk, AccountNumber, BankCode, Str(EmptyString)),
      Body(AmountZero, AccountNumber, BankCode, Str(NameAdeJoy)),
      Body(AmountNegative, AccountNumber, BankCode, Str(NameAdeJoy)),
      Body(AmountText, AccountNumber, BankCode, Str(NameAdeJoy)) }

NoBody == [t |-> "unread"]

\* What `await fetch(...)` followed by `await lookup.json()` can produce:
\* fetch rejects (network error), the body is not JSON (json() rejects), or a
\* JSON object arrives, with a 2xx status (ok) or not.
LookupOutcomes ==
    { [kind |-> "neterr", ok |-> FALSE, account_name |-> Undefined] }
    \cup { [kind |-> "nonjson", ok |-> o, account_name |-> Undefined] : o \in BOOLEAN }
    \cup { [kind |-> "json", ok |-> o, account_name |-> n] :
             o \in BOOLEAN, n \in {Undefined, Str(NameAdeAbukaJoy)} }

NoLookup == [kind |-> "pending", ok |-> FALSE, account_name |-> Undefined]

TransferOutcomes ==
    { [kind |-> "neterr", status |-> Undefined, message |-> Undefined] }
    \cup { [kind |-> "json", status |-> st, message |-> m] :
             st \in {Text("SUCCESS"), Num(200), Text("FAILED")},
             m \in {Undefined, Text("Insufficient balance")} }

\* The inputs used where the concurrency gate is exercised: one of each
\* outcome of the handler (missing field, exception, mismatch, transfer
\* failure, success).
GateBodies ==
    { Body(AmountOk, AccountNumber, BankCode, Str(NameAdeJoy)),
      Body(Undefined, AccountNumber, BankCode, Str(NameAdeJoy)) }

GateLookupOutcomes ==
    { [kind |-> "neterr", ok |-> FALSE, account_name |-> Undefined],
      [kind |-> "json", ok |-> TRUE, account_name |-> Undefined],
      [kind |-> "json", ok |-> TRUE, account_name |-> Str(NameAdeAbukaJoy)] }

GateTransferOutcomes ==
    { [kind |-> "neterr", status |-> Undefined, message |-> Undefined],
      [kind |-> "json", status |-> Text("SUCCESS"), message |-> Undefined],
      [kind |-> "json", status |-> Text("FAILED"), message |-> Undefined] }

NameAdeJoyPlain == << "A", "d", "e", " ", "J", "o", "y" >>
NameJaneDoe == << "J", "a", "n", "e", " ", "D", "o", "e" >>

\* every string of at most n characters of the alphabet
StringsUpTo(alphabet, n) == UNION { [1..k -> alphabet] : k \in 0..n }

\* Names given to fuzzyNameMatch as first argument: letters of both cases,
\* a space, a tab and a character the normalisation strips.
FirstNames == StringsUpTo({"x", "X", " ", "\t", "-"}, MaxNameLen)

\* Names given as second argument: two letters and the space.
SecondNames == StringsUpTo({"x", "y", " "}, MaxNameLen)

NamedPairs ==
    { << NameAdeAbukaJoy, NameAdeJoyPlain >>,
      << NameAdeAbukaJoy, NameAdeJoy >>,
      << NameJohnSmith, NameJaneDoe >>,
      << EmptyString, NamePunct >> }

NamePairs == (FirstNames \X SecondNames) \cup NamedPairs


(***************************************************************************)
(* State of the /withdraw route.                                            *)
(***************************************************************************)
VARIABLES
    processingWithdraws,  \* let processingWithdraws (line 216)
    now,                  \* what Date.now() returns
    pc,                   \* per slot: where its request is
    admitted,             \* per slot: concurrentLimiter registered a 'finish' listener
    body,                 \* per slot: req.body as the handler read it
    lookupJson,           \* per slot: what the lookup call produced
    nLookup,              \* per slot: lookup calls issued to the gateway
    nTransfer,            \* per slot: transfer calls issued to the gateway
    transfer,             \* per slot: the body of its transfer call
    res                   \* per slot: the response written

wvars == << processingWithdraws, now, pc, admitted, body, lookupJson,
            nLookup, nTransfer, transfer, res >>

(***************************************************************************)
(* State of the /squad-webhook route and of the ledger.                     *)
(***************************************************************************)
VARIABLES
    squadSecretSet,    \* process.env.SQUAD_WEBHOOK_SECRET is set
    serviceAccountOk,  \* process.env.SERVICE_ACCOUNT parses as JSON
    adminApps,         \* admin.apps.length
    users,             \* the users collection
    payments,          \* the payments collection, in order of creation
    hpc,               \* per delivery: where its handler is
    hreq,              \* per delivery: the request
    hres,              \* per delivery: the status answered (0: none yet)
    huser,             \* per delivery: uid and userData of the user found
    href,              \* per delivery: refData
    hdb                \* per delivery: calls made to the store

hvars == << squadSecretSet, serviceAccountOk, adminApps, users, payments,
            hpc, hreq, hres, huser, href, hdb >>

(***************************************************************************)
(* State of one call of fuzzyNameMatch.                                     *)
(***************************************************************************)
VARIABLES
    mpc,       \* where the call is: "off", "called", "normalized", "returned"
    given,     \* the two arguments as the caller passed them
    name1,     \* the parameter name1 (reassigned at line 239)
    name2,     \* the parameter name2 (reassigned at line 240)
    returned   \* the value returned

mvars == << mpc, given, name1, name2, returned >>

NoTransfer == [reference |-> Undefined]

NoResponse == [status |-> 0, success |-> FALSE, message |-> "", ref |-> Undefined]

Json(status, success, message, ref) ==
    [status |-> status, success |-> success, message |-> message, ref |-> ref]

InitWithdraw ==
    /\ processingWithdraws = 0
    /\ now = 0
    /\ pc = [s \in AllSlots |-> "idle"]
    /\ admitted = [s \in AllSlots |-> FALSE]
    /\ body = [s \in AllSlots |-> NoBody]
    /\ lookupJson = [s \in AllSlots |-> NoLookup]
    /\ nLookup = [s \in AllSlots |-> 0]
    /\ nTransfer = [s \in AllSlots |-> 0]
    /\ transfer = [s \in AllSlots |-> NoTransfer]
    /\ res = [s \in AllSlots |-> NoResponse]

\* res.status(..).json(..): the response is written; 'finish' comes later
Respond(s, r) ==
    /\ pc' = [pc EXCEPT ![s] = "responded"]
    /\ res' = [res EXCEPT ![s] = r]

\* the comparison off by one
GateFullOffByOne == processingWithdraws > MAX_CONCURRENT_WITHDRAWS

\* if (processingWithdraws >= MAX_CONCURRENT_WITHDRAWS)
GateFull == processingWithdraws >= MAX_CONCURRENT_WITHDRAWS

\* the bank code left out of the test
MissingFieldNoBankCode(b) ==
    \/ ~Truthy(b.amount)
    \/ ~Truthy(b.accountNumber)
    \/ ~Truthy(b.beneficiaryName)

\* if (!amount || !accountNumber || !bankCode || !beneficiaryName)
MissingField(b) ==
    \/ ~Truthy(b.amount)
    \/ ~Truthy(b.accountNumber)
    \/ ~Truthy(b.bankCode)
    \/ ~Truthy(b.beneficiaryName)

\* the check made only when the lookup gave a name
NameCheckWhenNamed(json, b) ==
    \/ ~Truthy(json.account_name)
    \/ fuzzyNameMatch(json.account_name.s, b.beneficiaryName.s)

\* fuzzyNameMatch(lookupJson.account_name || '', beneficiaryName)
NameCheck(json, b) ==
    fuzzyNameMatch(OrElse(json.account_name, Str(EmptyString)).s, b.beneficiaryName.s)

\* Math.round(amount * 100) of an amount held in thousandths: round half up
\* (decimal arithmetic; the binary rounding of amount * 100 is not modelled)
MathRound100(a) ==
    IF a.t = "number" THEN Num((a.n + 5) \div 10) ELSE NaN

Null == [t |-> "null"]

\* JSON.stringify writes NaN as null
JsonNumber(v) == IF v = NaN THEN Null ELSE v

\* 'wd_' + Date.now()
Reference(time) == [t |-> "reference", prefix |-> "wd_", time |-> time]

\* the body of the transfer call
TransferCall(b, time) ==
    [amount |-> JsonNumber(MathRound100(b.amount)),
     account_number |-> b.accountNumber,
     bank_code |-> b.bankCode,
     beneficiary_name |-> b.beneficiaryName,
     currency |-> "NGN",
     narration |-> "Earnings Withdrawal",
     reference |-> Reference(time)]

\* A limiter of express-rate-limit answers 429 (the global one or the
\* withdrawal one; which requests it stops is the library's business).
RateLimited(s) ==
    /\ pc[s] = "idle"
    /\ Respond(s, Json(429, FALSE, "Withdrawal limit reached-try again tomorrow", Undefined))
    /\ UNCHANGED << processingWithdraws, now, admitted, body, lookupJson,
                    nLookup, nTransfer, transfer >>
    /\ UNCHANGED << hvars, mvars >>

\* concurrentLimiter stops the request
ServerBusy(s) ==
    /\ pc[s] = "idle"
    /\ GateFull
    /\ Respond(s, Json(503, FALSE, "Server busy-try again tomorrow", Undefined))
    /\ UNCHANGED << processingWithdraws, now, admitted, body, lookupJson,
                    nLookup, nTransfer, transfer >>
    /\ UNCHANGED << hvars, mvars >>

\* concurrentLimiter admits the request and the handler runs to its first
\* await: either the 400 for a missing field or the lookup call.
AdmitWith(s, bodies) ==
    /\ pc[s] = "idle"
    /\ ~GateFull
    /\ processingWithdraws' = processingWithdraws + 1
    /\ admitted' = [admitted EXCEPT ![s] = TRUE]
    /\ \E b \in bodies :
        /\ body' = [body EXCEPT ![s] = b]
        /\ IF MissingField(b)
           THEN /\ Respond(s, Json(400, FALSE, "Fill all fields", Undefined))
                /\ UNCHANGED nLookup
           ELSE /\ pc' = [pc EXCEPT ![s] = "lookup"]
                /\ nLookup' = [nLookup EXCEPT ![s] = @ + 1]
                /\ UNCHANGED res
    /\ UNCHANGED << now, lookupJson, nTransfer, transfer >>
    /\ UNCHANGED << hvars, mvars >>

Admit(s) == AdmitWith(s, Bodies)

\* the lookup call made again when it fails
LookupRetriedWith(s, outcomes) ==
    /\ pc[s] = "lookup"
    /\ \E r \in outcomes :
        /\ lookupJson' = [lookupJson EXCEPT ![s] = r]
        /\ IF r.kind # "json"
           THEN /\ nLookup' = [nLookup EXCEPT ![s] = @ + 1]
                /\ UNCHANGED << pc, res, nTransfer, transfer >>
           ELSE IF ~NameCheck(r, body[s])
           THEN /\ Respond(s, Json(400, FALSE, "Name mismatch-check spelling or try a variation", Undefined))
                /\ UNCHANGED << nLookup, nTransfer, transfer >>
           ELSE /\ pc' = [pc EXCEPT ![s] = "transfer"]
                /\ nTransfer' = [nTransfer EXCEPT ![s] = @ + 1]
                /\ transfer' = [transfer EXCEPT ![s] = TransferCall(body[s], now)]
                /\ UNCHANGED << res, nLookup >>
    /\ UNCHANGED << processingWithdraws, now, admitted, body >>
    /\ UNCHANGED << hvars, mvars >>

\* The lookup call settles and the handler runs to its next await.
LookupReturnsWith(s, outcomes) ==
    /\ pc[s] = "lookup"
    /\ \E r \in outcomes :
        /\ lookupJson' = [lookupJson EXCEPT ![s] = r]
        /\ IF r.kind # "json"
           THEN /\ Respond(s, Json(500, FALSE, "Server error, try again", Undefined))
                /\ UNCHANGED << nTransfer, transfer >>
           ELSE IF ~NameCheck(r, body[s])
           THEN /\ Respond(s, Json(400, FALSE, "Name mismatch-check spelling or try a variation", Undefined))
                /\ UNCHANGED << nTransfer, transfer >>
           ELSE /\ pc' = [pc EXCEPT ![s] = "transfer"]
                /\ nTransfer' = [nTransfer EXCEPT ![s] = @ + 1]
                /\ transfer' = [transfer EXCEPT ![s] = TransferCall(body[s], now)]
                /\ UNCHANGED res
    /\ UNCHANGED << processingWithdraws, now, admitted, body, nLookup >>
    /\ UNCHANGED << hvars, mvars >>

LookupReturns(s) == LookupReturnsWith(s, LookupOutcomes)

\* what transfer.json() gives: the gateway echoes the reference it was sent
TransferResult(o, call) ==
    [kind |-> o.kind, status |-> o.status, message |-> o.message,
     reference |-> call.reference]

\* The transfer call settles and the handler answers.
TransferReturnsWith(s, outcomes) ==
    /\ pc[s] = "transfer"
    /\ \E o \in outcomes :
        LET r == TransferResult(o, transfer[s])
        IN
        IF r.kind # "json"
        THEN Respond(s, Json(500, FALSE, "Server error, try again", Undefined))
        ELSE IF r.status = Text("SUCCESS") \/ r.status = Num(200)
        THEN Respond(s, Json(200, TRUE, "Withdrawal successful!", r.reference))
        ELSE Respond(s, Json(400, FALSE, OrElse(r.message, Text("Transfer failed")).x,
                             Undefined))
    /\ UNCHANGED << processingWithdraws, now, admitted, body, lookupJson,
                    nLookup, nTransfer, transfer >>
    /\ UNCHANGED << hvars, mvars >>

TransferReturns(s) == TransferReturnsWith(s, TransferOutcomes)

\* the decrement made only for a successful withdrawal
FinishListenerOnSuccess(s) ==
    IF admitted[s] /\ res[s].success THEN processingWithdraws - 1 ELSE processingWithdraws

\* res.on('finish', () => processingWithdraws--)
FinishListener(s) ==
    IF admitted[s] THEN processingWithdraws - 1 ELSE processingWithdraws

\* The request object is dead: only the response and the listener stay.
Forget(s) ==
    /\ body' = [body EXCEPT ![s] = NoBody]
    /\ lookupJson' = [lookupJson EXCEPT ![s] = NoLookup]
    /\ nLookup' = [nLookup EXCEPT ![s] = 0]
    /\ nTransfer' = [nTransfer EXCEPT ![s] = 0]
    /\ transfer' = [transfer EXCEPT ![s] = NoTransfer]

\* The response has been handed to the operating system: 'finish' fires.
Finish(s) ==
    /\ pc[s] = "responded"
    /\ pc' = [pc EXCEPT ![s] = "finished"]
    /\ processingWithdraws' = FinishListener(s)
    /\ Forget(s)
    /\ UNCHANGED << now, admitted, res >>
    /\ UNCHANGED << hvars, mvars >>

\* A new connection takes the slot.
Reuse(s) ==
    /\ pc[s] = "finished"
    /\ pc' = [pc EXCEPT ![s] = "idle"]
    /\ admitted' = [admitted EXCEPT ![s] = FALSE]
    /\ res' = [res EXCEPT ![s] = NoResponse]
    /\ UNCHANGED << processingWithdraws, now, body, lookupJson, nLookup,
                    nTransfer, transfer >>
    /\ UNCHANGED << hvars, mvars >>

\* The connection is gone before the response was flushed: 'close' fires,
\* 'finish' does not, and the slot is free for a new connection.
Close(s) ==
    /\ pc[s] = "responded"
    /\ pc' = [pc EXCEPT ![s] = "idle"]
    /\ admitted' = [admitted EXCEPT ![s] = FALSE]
    /\ res' = [res EXCEPT ![s] = NoResponse]
    /\ Forget(s)
    /\ UNCHANGED << processingWithdraws, now >>
    /\ UNCHANGED << hvars, mvars >>

\* Time passes.
Tick ==
    /\ now < MaxNow
    /\ now' = now + 1
    /\ UNCHANGED << processingWithdraws, pc, admitted, body, lookupJson,
                    nLookup, nTransfer, transfer, res >>
    /\ UNCHANGED << hvars, mvars >>


(***************************************************************************)
(* The /squad-webhook route and the Firestore ledger.                       *)
(*                                                                          *)
(* A naira value is held in 200ths of a naira, so that amount / 100 and     *)
(* half of it are exact for every integer amount of kobo.                   *)
(***************************************************************************)
Div100(kobo) == 2 * kobo
Half(v) == v \div 2

SquadSecret == "whsec"

\* crypto.createHmac('sha512', key).update(msg).digest('hex'): distinct
\* (key, msg) pairs give distinct digests
Hmac(key, msg) == [t |-> "hex", key |-> key, msg |-> msg]

\* The bytes of a request body: the event and how the sender laid it out.
Raw(layout, event) == [layout |-> layout, event |-> event]

\* express.json(): the parsed body keeps the event and loses the layout
JsonParse(raw) == raw.event

\* JSON.stringify(event): always the compact layout
JsonStringify(event) == Raw("compact", event)

Successful(ref, amount, email) ==
    [event_type |-> "transaction.successful",
     data |-> [transaction_ref |-> ref, amount |-> amount, email |-> email]]

EventAnn == Successful("t1", 20000, "ann@x")
EventBob == Successful("t2", 5050, "bob@x")
EventCy == Successful("t3", 20000, "cy@x")
EventRef == Successful("t4", 20000, "ref@x")
EventNobody == Successful("t5", 20000, "nobody@x")
EventOther ==
    [event_type |-> "charge.failed",
     data |-> [transaction_ref |-> "t6", amount |-> 20000, email |-> "ann@x"]]

Events == {EventAnn, EventBob, EventCy, EventRef, EventNobody, EventOther}

\* What can arrive: the gateway's own deliveries (compact or spaced bytes,
\* signed over those bytes), a body changed after signing, a signature made
\* with another key, no signature header.
Deliveries ==
    { [raw |-> Raw(l, e), signature |-> Hmac(SquadSecret, Raw(l, e))] :
        l \in {"compact", "spaced"}, e \in Events }
    \cup { [raw |-> Raw("compact", e), signature |-> Hmac(SquadSecret, Raw("compact", EventOther))] :
             e \in Events \ {EventOther} }
    \cup { [raw |-> Raw("compact", e), signature |-> Hmac("guess", Raw("compact", e))] :
             e \in Events }
    \cup { [raw |-> Raw("compact", e), signature |-> Undefined] : e \in Events }

NoDelivery == [raw |-> Raw("none", EventOther), signature |-> Undefined]

\* The users collection before any webhook.  Cy's referrer document does
\* not exist.
User(email, name, referrer, balance) ==
    [email |-> email, name |-> name, paid |-> FALSE, balance |-> balance,
     referrerUid |-> referrer, referrals |-> << >>]

InitialUsers ==
    [u \in {"ann", "bob", "cy", "ref"} |->
        CASE u = "ann" -> User("ann@x", "Ann", Text("ref"), 0)
          [] u = "bob" -> User("bob@x", "Bob", Text("ref"), 0)
          [] u = "cy" -> User("cy@x", "Cy", Text("gone"), 0)
          [] u = "ref" -> User("ref@x", "Ref", Undefined, 1000)]

NoUser == [uid |-> "", data |-> Undefined]

InitWebhook ==
    /\ squadSecretSet \in BOOLEAN
    /\ serviceAccountOk \in BOOLEAN
    /\ adminApps = 0
    /\ users = InitialUsers
    /\ payments = << >>
    /\ hpc = [h \in Hooks |-> "idle"]
    /\ hreq = [h \in Hooks |-> NoDelivery]
    /\ hres = [h \in Hooks |-> 0]
    /\ huser = [h \in Hooks |-> NoUser]
    /\ href = [h \in Hooks |-> Undefined]
    /\ hdb = [h \in Hooks |-> 0]

\* res.status(..).send(..)
Send(h, status) ==
    /\ hpc' = [hpc EXCEPT ![h] = "done"]
    /\ hres' = [hres EXCEPT ![h] = status]

\* the store is called and the handler waits for it
Await(h, label) ==
    /\ hpc' = [hpc EXCEPT ![h] = label]
    /\ hdb' = [hdb EXCEPT ![h] = @ + 1]
    /\ UNCHANGED hres

\* the comparison skipped when the header is absent
SignatureOkOrAbsent(d) ==
    \/ d.signature = Undefined
    \/ d.signature = Hmac(SquadSecret, JsonStringify(JsonParse(d.raw)))

\* expectedHash !== signature, negated
SignatureOk(d) ==
    d.signature = Hmac(SquadSecret, JsonStringify(JsonParse(d.raw)))

\* the test that also takes the failed charges
AnyEventType(event) == event.event_type \in {"transaction.successful", "charge.failed"}

\* if (event.event_type === 'transaction.successful')
TransactionSuccessful(event) == event.event_type = "transaction.successful"

\* The request arrives and the handler runs to its first await.
Receive(h) ==
    /\ hpc[h] = "idle"
    /\ \E d \in Deliveries :
        /\ hreq' = [hreq EXCEPT ![h] = d]
        /\ IF ~squadSecretSet
           THEN Send(h, 500) /\ UNCHANGED << adminApps, hdb >>
           ELSE IF ~SignatureOk(d)
           THEN Send(h, 400) /\ UNCHANGED << adminApps, hdb >>
           ELSE IF ~TransactionSuccessful(JsonParse(d.raw))
           THEN Send(h, 200) /\ UNCHANGED << adminApps, hdb >>
           ELSE IF adminApps = 0 /\ ~serviceAccountOk
           THEN Send(h, 500) /\ UNCHANGED << adminApps, hdb >>
           ELSE /\ adminApps' = 1
                /\ Await(h, "query")
    /\ UNCHANGED << squadSecretSet, serviceAccountOk, users, payments, huser, href >>
    /\ UNCHANGED << wvars, mvars >>

\* the query that returns a user whatever the email
QueryAnyUser(email) == DOMAIN users

\* db.collection('users').where('email', '==', email).limit(1).get()
QueryByEmail(email) == { u \in DOMAIN users : users[u].email = email }

Event(h) == JsonParse(hreq[h].raw)

\* The query settles.
QueryReturns(h) ==
    /\ hpc[h] = "query"
    /\ LET found == QueryByEmail(Event(h).data.email)
       IN  IF found = {}
           THEN /\ Send(h, 200)
                /\ UNCHANGED << huser, hdb >>
           ELSE \E u \in found :
                /\ huser' = [huser EXCEPT ![h] = [uid |-> u, data |-> users[u]]]
                /\ Await(h, "setPaid")
    /\ UNCHANGED << squadSecretSet, serviceAccountOk, adminApps, users, payments,
                    hreq, href >>
    /\ UNCHANGED << wvars, mvars >>

\* db.collection('users').doc(uid).update({ paid: true }) settles.
SetPaid(h) ==
    /\ hpc[h] = "setPaid"
    /\ users' = [users EXCEPT ![huser[h].uid].paid = TRUE]
    /\ Await(h, "addPayment")
    /\ UNCHANGED << squadSecretSet, serviceAccountOk, adminApps, payments,
                    hreq, huser, href >>
    /\ UNCHANGED << wvars, mvars >>

\* the record with the whole amount as the admin's share
PaymentRecordWholeShare(uid, amount) ==
    [userUid |-> uid, amount |-> Div100(amount), timestamp |-> "serverTimestamp",
     adminShare |-> Div100(amount)]

\* { userUid, amount: amount / 100, timestamp, adminShare: (amount / 100) / 2 }
PaymentRecord(uid, amount) ==
    [userUid |-> uid, amount |-> Div100(amount), timestamp |-> "serverTimestamp",
     adminShare |-> Half(Div100(amount))]

\* db.collection('payments').add(..) settles.
AddPayment(h) ==
    /\ hpc[h] = "addPayment"
    /\ payments' = Append(payments, PaymentRecord(huser[h].uid, Event(h).data.amount))
    /\ IF Truthy(huser[h].data.referrerUid)
       THEN Await(h, "getRef")
       ELSE Send(h, 200) /\ UNCHANGED hdb
    /\ UNCHANGED << squadSecretSet, serviceAccountOk, adminApps, users,
                    hreq, huser, href >>
    /\ UNCHANGED << wvars, mvars >>

\* (await refDoc.get()).data()
DocData(uid) == IF uid \in DOMAIN users THEN users[uid] ELSE Undefined

\* refDoc.get() settles; refData.balance of a missing document throws.
GetRef(h) ==
    /\ hpc[h] = "getRef"
    /\ LET refData == DocData(huser[h].data.referrerUid.x)
       IN  IF refData = Undefined
           THEN /\ Send(h, 500)
                /\ UNCHANGED << href, hdb >>
           ELSE /\ href' = [href EXCEPT ![h] = refData]
                /\ Await(h, "updateRef")
    /\ UNCHANGED << squadSecretSet, serviceAccountOk, adminApps, users, payments,
                    hreq, huser >>
    /\ UNCHANGED << wvars, mvars >>

\* const earn = (amount / 100) / 2
Earn(amount) == Half(Div100(amount))

\* FieldValue.arrayUnion(e): e is added unless the array already holds it
arrayUnion(arr, e) ==
    IF \E i \in 1..Len(arr) : arr[i] = e THEN arr ELSE Append(arr, e)

\* balance: refData.balance + earn
NewBalance(refData, earn) == refData.balance + earn

\* refDoc.update({ balance: .., referrals: arrayUnion(..) }) settles.
UpdateRef(h) ==
    /\ hpc[h] = "updateRef"
    /\ LET ref == huser[h].data.referrerUid.x
           earn == Earn(Event(h).data.amount)
           entry == [refUid |-> huser[h].uid, name |-> huser[h].data.name, earn |-> earn]
       IN  users' = [users EXCEPT ![ref].balance = NewBalance(href[h], earn),
                                  ![ref].referrals = arrayUnion(@, entry)]
    /\ Send(h, 200)
    /\ UNCHANGED << squadSecretSet, serviceAccountOk, adminApps, payments,
                    hreq, huser, href, hdb >>
    /\ UNCHANGED << wvars, mvars >>

\* A call to the store rejects: catch (err) answers 500.
StoreFails(h) ==
    /\ hpc[h] \in {"query", "setPaid", "addPayment", "getRef", "updateRef"}
    /\ Send(h, 500)
    /\ UNCHANGED << squadSecretSet, serviceAccountOk, adminApps, users, payments,
                    hreq, huser, href, hdb >>
    /\ UNCHANGED << wvars, mvars >>

(***************************************************************************)
(* A call of fuzzyNameMatch, cut after the two assignments of normalize.    *)
(***************************************************************************)
\* no call is being made
NoCall ==
    /\ mpc = "off"
    /\ given = << EmptyString, EmptyString >>
    /\ name1 = EmptyString
    /\ name2 = EmptyString
    /\ returned = FALSE

\* fuzzyNameMatch(name1, name2) is entered with a pair of names
InitMatch ==
    /\ mpc = "called"
    /\ given \in NamePairs
    /\ name1 = given[1]
    /\ name2 = given[2]
    /\ returned = FALSE

\* name1 = normalize(name1); name2 = normalize(name2);
NormalizeNames ==
    /\ mpc = "called"
    /\ name1' = normalize(name1)
    /\ name2' = normalize(name2)
    /\ mpc' = "normalized"
    /\ UNCHANGED << given, returned >>
    /\ UNCHANGED << wvars, hvars >>

\* lines 241-249 on the normalized names
MatchWords ==
    /\ mpc = "normalized"
    /\ LET words1 == sort(split(name1))
           words2 == sort(split(name2))
           shorter == IF Len(words1) < Len(words2) THEN words1 ELSE words2
           longer == IF Len(words1) >= Len(words2) THEN words1 ELSE words2
       IN  returned' = RatioAtLeast(CountMatches(shorter, longer), Len(shorter))
    /\ mpc' = "returned"
    /\ UNCHANGED << given, name1, name2 >>
    /\ UNCHANGED << wvars, hvars >>

(***************************************************************************)
(* Specifications.                                                          *)
(***************************************************************************)
vars == << wvars, hvars, mvars >>

Init == InitWithdraw /\ InitWebhook /\ NoCall

\* The handler with every input, a few connections at a time; the clock
\* stands still.
NextWithdraw ==
    \/ \E s \in Clients : RateLimited(s)
    \/ \E s \in Clients : ServerBusy(s)
    \/ \E s \in Clients : Admit(s)
    \/ \E s \in Clients : LookupReturns(s)
    \/ \E s \in Clients : TransferReturns(s)
    \/ \E s \in Clients : Finish(s)
    \/ \E s \in Clients : Close(s)
    \/ \E s \in Clients : Reuse(s)

GateAdmit(s) == AdmitWith(s, GateBodies)
GateLookupReturns(s) == LookupReturnsWith(s, GateLookupOutcomes)
GateTransferReturns(s) == TransferReturnsWith(s, GateTransferOutcomes)

\* The concurrency gate with more connections than it admits, one input for
\* each outcome of the handler, and the clock running.
NextGate ==
    \/ \E s \in Slots : RateLimited(s)
    \/ \E s \in Slots : ServerBusy(s)
    \/ \E s \in Slots : GateAdmit(s)
    \/ \E s \in Slots : GateLookupReturns(s)
    \/ \E s \in Slots : GateTransferReturns(s)
    \/ \E s \in Slots : Finish(s)
    \/ \E s \in Slots : Close(s)
    \/ \E s \in Slots : Reuse(s)
    \/ Tick

\* Webhook deliveries, interleaved at their awaits.
NextWebhook ==
    \/ \E h \in Hooks : Receive(h)
    \/ \E h \in Hooks : QueryReturns(h)
    \/ \E h \in Hooks : SetPaid(h)
    \/ \E h \in Hooks : AddPayment(h)
    \/ \E h \in Hooks : GetRef(h)
    \/ \E h \in Hooks : UpdateRef(h)
    \/ \E h \in Hooks : StoreFails(h)

\* The environment of the webhook does not matter to /withdraw: it is set.
InitEnvSet ==
    /\ InitWithdraw
    /\ InitWebhook
    /\ squadSecretSet = TRUE
    /\ serviceAccountOk = TRUE
    /\ NoCall

SpecWithdraw == InitEnvSet /\ [][NextWithdraw]_vars

SpecGate == InitEnvSet /\ [][NextGate]_vars

\* The gate when every response written is flushed or its connection closes.
\* Nothing makes a gateway call settle: fetch is called without a timeout.
SpecRelease ==
    /\ InitEnvSet
    /\ [][NextGate]_vars
    /\ \A s \in Slots : WF_vars(Finish(s) \/ Close(s))

SpecWebhook == Init /\ [][NextWebhook]_vars

\* Calls of fuzzyNameMatch on every pair of short names.
NextMatch ==
    \/ NormalizeNames
    \/ MatchWords

InitCall ==
    /\ InitWithdraw
    /\ InitWebhook
    /\ squadSecretSet = TRUE
    /\ serviceAccountOk = TRUE
    /\ InitMatch

SpecMatch == InitCall /\ [][NextMatch]_vars

(***************************************************************************)
(* Properties of the /withdraw route.                                       *)
(***************************************************************************)
\* the name the lookup resolved, or '' when it resolved none
ResolvedName(s) ==
    IF lookupJson[s].account_name = Undefined
    THEN EmptyString
    ELSE lookupJson[s].account_name.s

NameMismatchAnswer == Json(400, FALSE, "Name mismatch-check spelling or try a variation", Undefined)

\* C1: a transfer call is issued only after the lookup call of the same
\* request has completed with a JSON answer and fuzzyNameMatch(resolved name
\* or '', beneficiaryName) is true; a request answered with the name-mismatch
\* rejection has issued no transfer call.
C1_TransferOnlyAfterNameMatch ==
    \A s \in AllSlots :
        /\ nTransfer[s] > 0 =>
            /\ nLookup[s] = 1
            /\ lookupJson[s].kind = "json"
            /\ fuzzyNameMatch(ResolvedName(s), body[s].beneficiaryName.s)
        /\ (pc[s] = "responded" /\ res[s] = NameMismatchAnswer) =>
            /\ nTransfer[s] = 0
            /\ ~fuzzyNameMatch(ResolvedName(s), body[s].beneficiaryName.s)

\* One request has had its transfer call after a matching lookup while
\* another has been rejected for a name mismatch.
C1_Witness ==
    \E s, u \in AllSlots :
        /\ pc[s] = "transfer" /\ nTransfer[s] = 1
        /\ lookupJson[s].account_name = Str(NameAdeAbukaJoy)
        /\ pc[u] = "responded" /\ res[u] = NameMismatchAnswer
        /\ body[u].beneficiaryName = Str(NameJohnSmith)

\* an admitted request whose 'finish' has not fired
InFlight(s) == admitted[s] /\ pc[s] \in {"lookup", "transfer", "responded"}

NumInFlight == Cardinality({ s \in AllSlots : InFlight(s) })

\* the step is the arrival of a request at concurrentLimiter
ReachesGate(s) == pc[s] = "idle" /\ pc'[s] # "idle" /\ res'[s].status # 429

C3_CounterInRange ==
    /\ processingWithdraws \in 0..MAX_CONCURRENT_WITHDRAWS
    /\ \A s \in AllSlots :
        (pc[s] = "responded" /\ res[s].status = 503) =>
            ~admitted[s] /\ nLookup[s] = 0 /\ nTransfer[s] = 0

C3_BusyStep ==
    \A s \in AllSlots :
        (ReachesGate(s) /\ NumInFlight >= MAX_CONCURRENT_WITHDRAWS) =>
            /\ res'[s].status = 503
            /\ nLookup'[s] = 0 /\ nTransfer'[s] = 0
            /\ processingWithdraws' = processingWithdraws

\* C3: processingWithdraws stays within 0..MAX_CONCURRENT_WITHDRAWS; a
\* request that reaches the gate while MAX_CONCURRENT_WITHDRAWS admitted
\* requests have not finished is answered 503, makes no gateway call and
\* leaves the counter as it was.
C3_GateBoundsInFlight == []C3_CounterInRange /\ [][C3_BusyStep]_vars

\* Two admitted requests wait for the gateway and a third was answered 503.
C3_Witness ==
    \E s \in AllSlots :
        /\ pc[s] = "responded" /\ res[s].status = 503
        /\ NumInFlight = MAX_CONCURRENT_WITHDRAWS
        /\ processingWithdraws = MAX_CONCURRENT_WITHDRAWS

\* the step is the 'finish' of the response of an admitted request
FinishOf(s) == pc[s] = "responded" /\ pc'[s] = "finished" /\ admitted[s]

C4_Step ==
    /\ \A s \in AllSlots :
        FinishOf(s) =>
            /\ processingWithdraws' = processingWithdraws - 1
            /\ processingWithdraws' < MAX_CONCURRENT_WITHDRAWS
    /\ processingWithdraws' < processingWithdraws =>
        \E s \in AllSlots : FinishOf(s)
    /\ \A s \in AllSlots :
        (ReachesGate(s) /\ processingWithdraws < MAX_CONCURRENT_WITHDRAWS) =>
            admitted'[s] /\ res'[s].status # 503

\* C4: the 'finish' of an admitted request, whatever was answered, lowers
\* the counter by exactly one and nothing else lowers it; the counter is then
\* below the ceiling, and a request that reaches the gate with the counter
\* below the ceiling is admitted.
C4_FinishReleasesSlot == [][C4_Step]_vars

\* An admitted request that ended in the 500 of the catch block has
\* finished, and a request that arrived after it has been admitted.
C4_Witness ==
    \E s, u \in AllSlots :
        /\ pc[s] = "finished" /\ admitted[s] /\ res[s].status = 500
        /\ pc[u] = "lookup" /\ admitted[u]
        /\ processingWithdraws = 1

AbsentField(b) ==
    \/ b.amount = Undefined
    \/ b.accountNumber = Undefined
    \/ b.bankCode = Undefined
    \/ b.beneficiaryName = Undefined

FillAllFieldsAnswer == Json(400, FALSE, "Fill all fields", Undefined)

\* C5: a request whose body lacks amount, accountNumber, bankCode or
\* beneficiaryName is answered 400 by the handler and causes no lookup and no
\* transfer call.
C5_AbsentFieldRejected ==
    \A s \in AllSlots :
        (body[s] # NoBody /\ AbsentField(body[s])) =>
            /\ pc[s] = "responded"
            /\ res[s] = FillAllFieldsAnswer
            /\ nLookup[s] = 0
            /\ nTransfer[s] = 0

\* A request without a bank code has been answered 400.
C5_Witness ==
    \E s \in AllSlots :
        /\ body[s] # NoBody
        /\ body[s].bankCode = Undefined
        /\ body[s].amount # Undefined
        /\ res[s] = FillAllFieldsAnswer

\* C6: when the lookup answer carries no account name, no transfer call is
\* issued, whatever beneficiaryName passed the validation.
C6_NoNameNoTransfer ==
    \A s \in AllSlots :
        (lookupJson[s].kind = "json" /\ lookupJson[s].account_name = Undefined) =>
            nTransfer[s] = 0

LookupFailed(s) ==
    \/ lookupJson[s].kind = "neterr"
    \/ (lookupJson[s].kind \in {"json", "nonjson"} /\ ~lookupJson[s].ok)

\* C7: when the lookup call fails, by a network error or by a non-2xx
\* answer, the request is answered 500 and no transfer call is attempted.
C7_LookupFailureIsUpstreamError ==
    \A s \in AllSlots :
        LookupFailed(s) =>
            /\ nTransfer[s] = 0
            /\ pc[s] = "responded"
            /\ res[s].status = 500

PositiveNumber(a) == a.t = "number" /\ a.n > 0

\* C8: a request whose amount is not a positive number is answered 400 and
\* makes no gateway call.
C8_NonPositiveAmountRejected ==
    \A s \in AllSlots :
        (body[s] # NoBody /\ ~PositiveNumber(body[s].amount)) =>
            /\ nLookup[s] = 0
            /\ nTransfer[s] = 0
            /\ pc[s] = "responded"
            /\ res[s].status = 400

(***************************************************************************)
(* Properties of the /squad-webhook route.                                  *)
(***************************************************************************)
\* the signature header equals the HMAC the service computes over the body
SignatureMatches(h) ==
    hreq[h].signature = Hmac(SquadSecret, Raw("compact", hreq[h].raw.event))

LedgerTouched == users # InitialUsers \/ payments # << >>

\* C2: a delivery whose signature header differs from the HMAC the service
\* computes over the body is answered 400 and makes no call to the store;
\* only deliveries whose signature matched call the store, and the ledger
\* changes only if one of them did.
C2_BadSignatureNoLedgerAccess ==
    /\ \A h \in Hooks :
        (hpc[h] # "idle" /\ squadSecretSet /\ ~SignatureMatches(h)) =>
            hpc[h] = "done" /\ hres[h] = 400 /\ hdb[h] = 0
    /\ \A h \in Hooks : hdb[h] > 0 => SignatureMatches(h)
    /\ LedgerTouched => \E h \in Hooks : SignatureMatches(h) /\ hdb[h] > 0

\* A delivery whose body was changed after signing has been answered 400
\* while another, genuine one has changed the ledger.
C2_Witness ==
    \E h, g \in Hooks :
        /\ hpc[h] = "done" /\ hres[h] = 400 /\ hdb[h] = 0
        /\ hreq[h].raw.event = EventAnn
        /\ hreq[h].signature = Hmac(SquadSecret, Raw("compact", EventOther))
        /\ SignatureMatches(g) /\ hdb[g] > 0
        /\ LedgerTouched

\* the delivery was processed to the end and its user has the referrer "ref"
CreditedRef(h) ==
    /\ hpc[h] = "done"
    /\ hres[h] = 200
    /\ huser[h].uid # ""
    /\ huser[h].data.referrerUid = Text("ref")

RECURSIVE SumEarned(_)
SumEarned(hs) ==
    IF hs = {} THEN 0
    ELSE LET h == CHOOSE x \in hs : TRUE
         IN  (IF CreditedRef(h) THEN Half(Div100(hreq[h].raw.event.data.amount)) ELSE 0)
             + SumEarned(hs \ {h})

Quiescent == \A h \in Hooks : hpc[h] \in {"idle", "done"}

\* C9: once the deliveries are over, the referrer's balance is its initial
\* balance plus half the major-unit amount of every processed event of a
\* referred user.
C9_NoCreditLost ==
    Quiescent =>
        users["ref"].balance = InitialUsers["ref"].balance + SumEarned(Hooks)

\* the step is the completion of the referrer update of delivery h
CreditStep(h) == hpc[h] = "updateRef" /\ hpc'[h] = "done" /\ hres'[h] = 200

C10_Step ==
    \A h \in Hooks :
        CreditStep(h) =>
            LET ref == huser[h].data.referrerUid.x
                earn == Half(Div100(hreq[h].raw.event.data.amount))
            IN  /\ users'[ref].balance = users[ref].balance + earn
                /\ users'[ref].referrals =
                       Append(users[ref].referrals,
                              [refUid |-> huser[h].uid, name |-> huser[h].data.name,
                               earn |-> earn])

\* C10: processing an event of a referred user raises the referrer's
\* balance by exactly half of amount / 100 and makes the referral list one
\* entry longer, that entry being {refUid, name, earn}.
C10_CreditAndOneEntryPerEvent == [][C10_Step]_vars


\* the request of delivery h once it has arrived (in the state after the step)
VerifiedSuccessful(d) ==
    /\ d.signature = Hmac(SquadSecret, Raw("compact", d.raw.event))
    /\ d.raw.event.event_type = "transaction.successful"

KnownEmail(email) == \E u \in DOMAIN InitialUsers : InitialUsers[u].email = email

UnknownEmailDelivery(d) == VerifiedSuccessful(d) /\ ~KnownEmail(d.raw.event.data.email)

\* the step is one of the handler of delivery h
HandlerStep(h) == hpc'[h] # hpc[h]

LedgerUnchanged == users' = users /\ payments' = payments

C11_Inv ==
    \A h \in Hooks :
        (hpc[h] # "idle" /\ UnknownEmailDelivery(hreq[h])) =>
            /\ hdb[h] <= 1
            /\ huser[h] = NoUser
            /\ href[h] = Undefined
            /\ hpc[h] \in {"query", "done"}

C11_Step ==
    \A h \in Hooks :
        /\ (HandlerStep(h) /\ UnknownEmailDelivery(hreq'[h])) => LedgerUnchanged
        /\ (QueryReturns(h) /\ UnknownEmailDelivery(hreq[h])) =>
               hpc'[h] = "done" /\ hres'[h] = 200

\* C11: the handler of a verified transaction.successful delivery whose email
\* is the email of no user changes neither users nor payments in any of its
\* steps, calls the store only for the query, and answers 200 when the query
\* settles.
C11_UnknownEmailAcknowledged == []C11_Inv /\ [][C11_Step]_vars

\* The delivery for nobody@x has been answered 200 after its one query, and
\* the ledger is as it was.
C11_Witness ==
    \E h \in Hooks :
        /\ hreq[h].raw.event = EventNobody
        /\ VerifiedSuccessful(hreq[h])
        /\ hpc[h] = "done" /\ hres[h] = 200 /\ hdb[h] = 1
        /\ users = InitialUsers /\ payments = << >>


OtherEventDelivery(d) ==
    /\ d.signature = Hmac(SquadSecret, Raw("compact", d.raw.event))
    /\ d.raw.event.event_type # "transaction.successful"

C12_Inv ==
    \A h \in Hooks :
        (hpc[h] # "idle" /\ squadSecretSet /\ OtherEventDelivery(hreq[h])) =>
            /\ hpc[h] = "done"
            /\ hres[h] = 200
            /\ hdb[h] = 0
            /\ huser[h] = NoUser

C12_Step ==
    \A h \in Hooks :
        (HandlerStep(h) /\ OtherEventDelivery(hreq'[h])) =>
            LedgerUnchanged /\ adminApps' = adminApps

\* C12: a delivery whose signature verifies and whose event_type is not
\* 'transaction.successful' is answered 200 in the step in which it arrives,
\* makes no call to the store, does not initialise the store client, and
\* leaves users and payments as they were.
C12_OtherEventsNoSideEffects == []C12_Inv /\ [][C12_Step]_vars

\* A charge.failed delivery for ann@x has been answered 200 without a store
\* call and Ann is still unpaid.
C12_Witness ==
    \E h \in Hooks :
        /\ hreq[h].raw.event = EventOther
        /\ OtherEventDelivery(hreq[h])
        /\ hpc[h] = "done" /\ hres[h] = 200 /\ hdb[h] = 0
        /\ ~users["ann"].paid /\ payments = << >>


(***************************************************************************)
(* Properties of fuzzyNameMatch.                                            *)
(***************************************************************************)
\* C13: fuzzyNameMatch is symmetric: the value returned for (a, b) is the
\* value of fuzzyNameMatch(b, a), also for names with repeated tokens and
\* for pairs with as many tokens in one name as in the other.
C13_Symmetric ==
    mpc = "returned" => returned = fuzzyNameMatch(given[2], given[1])

\* the token list of a name: its normalized form split at the spaces
Tokens(s) == split(normalize(s))

\* the shorter token list, the second name's on a tie, and the other one
ShorterTokens(a, b) == IF Len(Tokens(a)) < Len(Tokens(b)) THEN Tokens(a) ELSE Tokens(b)
LongerTokens(a, b) == IF Len(Tokens(a)) < Len(Tokens(b)) THEN Tokens(b) ELSE Tokens(a)

\* the places of the shorter list whose token occurs anywhere in the longer
Overlap(a, b) ==
    { i \in 1..Len(ShorterTokens(a, b)) :
        \E j \in 1..Len(LongerTokens(a, b)) :
            LongerTokens(a, b)[j] = ShorterTokens(a, b)[i] }

\* overlap / length of the shorter list >= 0.66
RatioRule(a, b) == 100 * Cardinality(Overlap(a, b)) >= 66 * Len(ShorterTokens(a, b))

\* C14: fuzzyNameMatch returns true exactly when the tokens of the shorter
\* normalized token list (the second name's on a tie) that occur anywhere in
\* the longer list are at least 0.66 of the shorter list; ('Ade Abuka Joy',
\* 'Ade Joy') gives true and ('John Smith', 'Jane Doe') gives false.
C14_RatioRule ==
    mpc = "returned" =>
        /\ returned = RatioRule(given[1], given[2])
        /\ given = << NameAdeAbukaJoy, NameAdeJoyPlain >> => returned
        /\ given = << NameJohnSmith, NameJaneDoe >> => ~returned

\* The call on ('Ade Abuka Joy', 'Ade Joy') has returned true.
C14_Witness ==
    /\ mpc = "returned"
    /\ given = << NameAdeAbukaJoy, NameAdeJoyPlain >>
    /\ returned

\* C15: normalize is idempotent: normalizing a name that normalize
\* returned gives the same name.
C15_NormalizeIdempotent ==
    mpc = "normalized" =>
        /\ name1 = normalize(given[1]) /\ normalize(name1) = name1
        /\ name2 = normalize(given[2]) /\ normalize(name2) = name2

\* A name with capitals, a stripped character, a tab and spaces at either
\* end has been normalized to something else than itself.
C15_Witness ==
    /\ mpc = "normalized"
    /\ given[1] = << " ", "X", "-" >>
    /\ name1 = << "x" >>
    /\ given[2] = << "x", " ", " " >>
    /\ name2 = << "x" >>


(***************************************************************************)
(* Properties of the payment records.                                       *)
(***************************************************************************)
\* payments.add(..) of delivery h has settled: the handler went on to the
\* referrer, or acknowledged right after it
Added(h) ==
    \/ hdb[h] >= 4
    \/ (hdb[h] = 3 /\ hpc[h] = "done" /\ hres[h] = 200)

\* the record the claim expects of delivery h; money is in 200ths of a naira
ExpectedRecord(h, rec) ==
    /\ rec.userUid = huser[h].uid
    /\ rec.amount * 100 = hreq[h].raw.event.data.amount * 200
    /\ rec.adminShare * 2 = rec.amount

C16_Inv ==
    /\ Len(payments) = Cardinality({ h \in Hooks : Added(h) })
    /\ \A i \in 1..Len(payments) :
        /\ \E h \in Hooks : Added(h) /\ ExpectedRecord(h, payments[i])
        /\ Cardinality({ j \in 1..Len(payments) : payments[j] = payments[i] })
               = Cardinality({ h \in Hooks : Added(h) /\ ExpectedRecord(h, payments[i]) })
    /\ \A h \in Hooks :
        (hpc[h] = "done" /\ hres[h] = 200 /\ VerifiedSuccessful(hreq[h])
            /\ KnownEmail(hreq[h].raw.event.data.email)) => Added(h)

C16_Step ==
    /\ \A i \in 1..Len(payments) : Len(payments') >= i /\ payments'[i] = payments[i]
    /\ Len(payments') <= Len(payments) + 1
    /\ Len(payments') = Len(payments) + 1 =>
        \E h \in Hooks :
            /\ hpc[h] = "addPayment" /\ hpc'[h] # "addPayment"
            /\ ExpectedRecord(h, payments'[Len(payments')])

\* C16: payments only grows, one record at a time and at its end, each new
\* record being that of the delivery whose add settles, with amount =
\* amount / 100 and adminShare = half of it; there is exactly one record for
\* every delivery whose add settled, and every verified
\* transaction.successful delivery of a known user that was answered 200 has
\* its record.
C16_PaymentsAppendOnly == []C16_Inv /\ [][C16_Step]_vars

\* Ann's and Bob's deliveries have been processed and payments holds their
\* two records in the order they were added.
C16_Witness ==
    /\ Len(payments) = 2
    /\ payments[1].userUid = "bob" /\ payments[1].amount = 10100
    /\ payments[1].adminShare = 5050
    /\ payments[2].userUid = "ann"
    /\ \A h \in Hooks : hpc[h] = "done" /\ hres[h] = 200


(***************************************************************************)
(* Further properties of the /withdraw route.                               *)
(***************************************************************************)
\* C17: the transfer calls of two requests carry different references, also
\* when both requests are in flight together and the clock has not advanced
\* between their transfer calls.
C17_ReferencesDistinct ==
    \A s, u \in AllSlots :
        (s # u /\ nTransfer[s] > 0 /\ nTransfer[u] > 0) =>
            transfer[s].reference # transfer[u].reference

\* a response is written for the request in slot s
Responds(s) == res'[s] # res[s] /\ res'[s] # NoResponse

\* the request in slot s has been taken up by the handler
Handled(s) == body[s] # NoBody

C18_Inv ==
    \A s \in AllSlots :
        /\ nLookup[s] <= 1
        /\ nTransfer[s] <= 1
        /\ nTransfer[s] <= nLookup[s]
        /\ pc[s] = "lookup" => (nLookup[s] = 1 /\ nTransfer[s] = 0 /\ res[s] = NoResponse)
        /\ pc[s] = "transfer" => (nTransfer[s] = 1 /\ res[s] = NoResponse)
        /\ (Handled(s) /\ pc[s] \notin {"lookup", "transfer"}) =>
               (pc[s] = "responded" /\ res[s] # NoResponse)

C18_Step ==
    \A s \in AllSlots :
        /\ Responds(s) => (res[s] = NoResponse /\ pc[s] # "responded" /\ pc'[s] = "responded")
        /\ (pc[s] = "lookup" /\ pc'[s] # "lookup") => pc'[s] \in {"transfer", "responded"}
        /\ (pc[s] = "transfer" /\ pc'[s] # "transfer") => pc'[s] = "responded"
        /\ (pc[s] = "responded" /\ pc'[s] = "responded") =>
               (res'[s] = res[s] /\ nLookup'[s] = nLookup[s] /\ nTransfer'[s] = nTransfer[s])

\* C18: a request issues at most one lookup call and at most one transfer
\* call; a gateway answer or exception is followed by the next call or by the
\* response, never by the same call again; a response is written once, and
\* once it is written the request makes no call and writes nothing more.
C18_NothingRetried == []C18_Inv /\ [][C18_Step]_vars

\* A request whose transfer call threw has been answered 500 after one
\* lookup call and one transfer call.
C18_Witness ==
    \E s \in AllSlots :
        /\ pc[s] = "responded" /\ res[s].status = 500
        /\ nLookup[s] = 1 /\ nTransfer[s] = 1

C19_NoSlotHeldWhenIdle == NumInFlight = 0 => processingWithdraws = 0

C19_Released == \A s \in AllSlots : InFlight(s) ~> ~InFlight(s)

\* C19: every admitted request eventually stops being in flight, and when
\* no admitted request is in flight the counter is 0, so that the gate never
\* answers 503 while nothing is being processed.
C19_SlotNeverHeldForever == []C19_NoSlotHeldWhenIdle /\ C19_Released

(***************************************************************************)
(* Properties of the webhook's error path.                                  *)
(***************************************************************************)
\* the payment records of user u
PaymentsOf(u) == { i \in 1..Len(payments) : payments[i].userUid = u }

\* the referral entries that user u earned its referrer r
CreditsFor(r, u) ==
    { i \in 1..Len(users[r].referrals) : users[r].referrals[i].refUid = u }

\* the only delivery so far was answered 500
OnlyDeliveryFailed(h) ==
    /\ hpc[h] = "done" /\ hres[h] = 500
    /\ \A g \in Hooks \ {h} : hpc[g] = "idle"

\* h was answered 500 and g, a delivery of the same event, 200
RedeliveredAfterError(h, g) ==
    /\ h # g
    /\ hreq[h] = hreq[g]
    /\ VerifiedSuccessful(hreq[h])
    /\ hpc[h] = "done" /\ hres[h] = 500
    /\ hpc[g] = "done" /\ hres[g] = 200
    /\ huser[g].uid # ""

\* C20: a delivery answered 500 has changed neither users nor payments, and
\* when the same transaction.successful event is delivered again and
\* processed, the user is paid and has exactly one payment record, and its
\* referrer, if it has one, exactly one credit for it.
C20_ErrorLeavesNoPartialMutation ==
    /\ \A h \in Hooks :
        OnlyDeliveryFailed(h) => (users = InitialUsers /\ payments = << >>)
    /\ \A h, g \in Hooks :
        RedeliveredAfterError(h, g) =>
            LET u == huser[g].uid
                r == huser[g].data.referrerUid
            IN  /\ users[u].paid
                /\ Cardinality(PaymentsOf(u)) = 1
                /\ Truthy(r) =>
                    /\ Cardinality(CreditsFor(r.x, u)) = 1
                    /\ users[r.x].balance =
                           InitialUsers[r.x].balance + Earn(hreq[g].raw.event.data.amount)

=============================================================================
